---- MODULE Spec2Model ----
(***************************************************************************)
(* BoxStorageDAO (intermediate-en/session_3/dao/app.py): a governance      *)
(* contract with five global scalars and six box mappings.  Every external *)
(* call is one atomic step; a failed Assert, a failed box read or a        *)
(* rejected inner transaction aborts the call and discards its writes.     *)
(*                                                                         *)
(* Byte strings are modelled by their content as tuples: an encoded        *)
(* (address, uint64) key is the two-element tuple of its components, the   *)
(* empty byte string is << >>.  A box mapping is a function from encoded   *)
(* keys to values; its DOMAIN is the set of boxes that exist.              *)
(*                                                                         *)
(* Ledger assumptions: the contract account holds enough funds to cover    *)
(* its minimum balance and fees, every call names the boxes it uses, and   *)
(* the strings of a proposal fit the ledger's asset name fields.           *)
(*                                                                         *)
(* Spec draws the callers of `vote` from all accounts and the callers of   *)
(* vote_on_update from the first NumUpdateVoters of them.                  *)
(***************************************************************************)
EXTENDS Integers, Sequences, FiniteSets, TLC

\* ---------------------------------------------------------------- bounds
NumAccounts == 4
NumProposers == 2
NumUpdateVoters == 2
MaxProposalId == 1

Accounts == 1..NumAccounts
\* accounts that register entries and are named as the target of a ballot
Proposers == 1..NumProposers
\* accounts that call vote_on_update
UpdateVoters == 1..NumUpdateVoters
ProposalIds == 1..MaxProposalId

\* Global.current_application_address(): an address that is no caller's
AppAddr == NumAccounts + 1

\* NFTProposal values offered to add_proposal
Metadata ==
    { [name |-> "Gold", unit_name |-> "GLD", reserve |-> 1],
      [name |-> "Silver", unit_name |-> "SLV", reserve |-> 2] }

\* reserve addresses offered to add_update
Reserves == {2}

VARIABLES
    winning_proposal_votes,
    winning_proposal,
    winning_update_votes,
    winning_update,
    minted_asa,
    proposals,
    votes,
    has_voted,
    update_proposals,
    update_votes,
    update_has_voted,
    assets,        \* ledger: the assets created by the contract's inner transactions
    ballots_cast,  \* history: number of committed vote calls per account
    first_reached, \* history: the key whose tally first reached the highest
                   \* tally any key of `votes` has had
    last           \* history: the call just executed, the check that aborted it
                   \* ("none": it committed) and the key a committed call used

globals == <<winning_proposal_votes, winning_proposal, winning_update_votes,
             winning_update, minted_asa>>
boxes == <<proposals, votes, has_voted, update_proposals, update_votes,
           update_has_voted>>
history == <<ballots_cast, first_reached>>
vars == <<globals, boxes, assets, history, last>>

\* ------------------------------------------------------- ledger primitives
\* abi.Tuple2[abi.Address, abi.Uint64] encoding: address bytes then the id
EncodeKey(addr, id) == <<addr, id>>

\* Bytes(""), the default of winning_proposal / winning_update
EmptyBytes == << >>

BoxExists(box, key) == key \in DOMAIN box

BoxPut(box, key, value) ==
    [k \in (DOMAIN box) \cup {key} |-> IF k = key THEN value ELSE box[k]]

\* byte length of an encoded NFTProposal: two 2-byte offsets and the 32-byte
\* reserve in the head, each string as a 2-byte length and its bytes
ProposalLen(p) == 36 + (2 + Len(p.name)) + (2 + Len(p.unit_name))

\* minimum balance a box adds to the account that owns it
BoxMBR(nameLen, valueLen) == 2500 + 400 * (nameLen + valueLen)

RECURSIVE SumOver(_, _)
SumOver(box, keys) ==
    IF keys = {} THEN 0
    ELSE LET k == CHOOSE x \in keys : TRUE
         IN BoxMBR(2 + 40, ProposalLen(box[k])) + SumOver(box, keys \ {k})

\* AccountParam.minBalance(Global.current_application_address())
MinBalance(p, v, h, up, uv, uh, a) ==
    100000
    + SumOver(p, DOMAIN p)
    + Cardinality(DOMAIN v) * BoxMBR(2 + 40, 8)
    + Cardinality(DOMAIN h) * BoxMBR(2 + 32, 1)
    + Cardinality(DOMAIN up) * BoxMBR(3 + 40, 32)
    + Cardinality(DOMAIN uv) * BoxMBR(3 + 40, 8)
    + Cardinality(DOMAIN uh) * BoxMBR(3 + 32, 1)
    + Len(a) * 100000

\* the highest tally of a ballot box mapping, 0 when it has no entry
MaxTally(box) ==
    IF DOMAIN box = {} THEN 0
    ELSE CHOOSE n \in {box[k] : k \in DOMAIN box} :
            \A k \in DOMAIN box : box[k] <= n

\* faulty variant: the writes staged before a failing check are kept
CommitAlways(ok, staged, before) == staged

\* an aborted call keeps none of its staged writes
Commit(ok, staged, before) == IF ok THEN staged ELSE before

\* ------------------------------------------------------------- predicates
\* faulty variant: the pre-mint gate is missing
PreMintAlways(asa) == TRUE

PreMint(asa) == asa = 0

\* faulty variant: the post-mint gate is missing
PostMintAlways(asa) == TRUE

PostMint(asa) == asa /= 0

\* faulty variant: the registration check is missing
KeyTakenNever(box, key) == FALSE

\* the registration check of add_proposal / add_update
KeyTaken(box, key) == BoxExists(box, key)

\* faulty variant: the voter is not marked
MarkVotedForgotten(box, sender) == box

\* has_voted[sender].set(true) / update_has_voted[sender].set(true)
MarkVoted(box, sender) == BoxPut(box, sender, TRUE)

\* faulty variant: the payment must exceed the marginal cost
FundedStrictly(amount, current_mbr, pre_mbr) == amount > current_mbr - pre_mbr

Funded(amount, current_mbr, pre_mbr) == amount >= current_mbr - pre_mbr

\* faulty variant: the latest ballot always takes the lead
IsWinningAlways(total_votes, best) == TRUE

\* faulty variant: a tie takes the lead
IsWinningOrTied(total_votes, best) == total_votes >= best

IsWinning(total_votes, best) == total_votes > best

\* faulty variant: a tally that is created starts at one
TallyFromOne(box, key) ==
    LET initialised == IF ~BoxExists(box, key) THEN BoxPut(box, key, 1) ELSE box
    IN BoxPut(initialised, key, initialised[key] + 1)

\* faulty variant: a tally that is created is left at zero
TallyCreatedAtZero(box, key) ==
    IF ~BoxExists(box, key) THEN BoxPut(box, key, 0)
    ELSE BoxPut(box, key, box[key] + 1)

\* the tally of `key` is created with 0 when it has none, then raised by one
Tally(box, key) ==
    LET initialised == IF ~BoxExists(box, key) THEN BoxPut(box, key, 0) ELSE box
    IN BoxPut(initialised, key, initialised[key] + 1)

\* the writes of a vote / vote_on_update call that passed its checks: the
\* new tallies, the marked voters, the winning tally and the winning key
Ballot(tallies, voted, best, leader, sender, key) ==
    LET counted == Tally(tallies, key)
        total_votes == counted[key]
        winning == IsWinning(total_votes, best)
    IN [tallies |-> counted,
        voted |-> MarkVoted(voted, sender),
        best |-> IF winning THEN total_votes ELSE best,
        leader |-> IF winning THEN key ELSE leader]

\* TxnField.config_asset_reserve takes exactly 32 bytes
ValidAddressLen(n) == n = 32

\* payment amounts tried: each marginal storage cost and one unit less
StorageCosts ==
    {BoxMBR(2 + 40, ProposalLen(m)) : m \in Metadata} \cup {BoxMBR(3 + 40, 32)}
Amounts == UNION {{c - 1, c} : c \in StorageCosts}
LargestAmount == CHOOSE a \in Amounts : \A b \in Amounts : b <= a
\* payments to the contract of every amount, and a generous one to account 1
Payments ==
    [receiver : {AppAddr}, amount : Amounts]
        \cup [receiver : {1}, amount : {LargestAmount}]

\* ------------------------------------------------------------------- Init
Init ==
    /\ winning_proposal_votes = 0
    /\ winning_proposal = EmptyBytes
    /\ winning_update_votes = 0
    /\ winning_update = EmptyBytes
    /\ minted_asa = 0
    /\ proposals = << >>
    /\ votes = << >>
    /\ has_voted = << >>
    /\ update_proposals = << >>
    /\ update_votes = << >>
    /\ update_has_voted = << >>
    /\ assets = << >>
    /\ ballots_cast = [a \in Accounts |-> 0]
    /\ first_reached = EmptyBytes
    /\ last = [op |-> "create", key |-> EmptyBytes, failed |-> "none"]

\* ---------------------------------------------------------------- actions
\* the history record of a call: an aborted call leaves no key behind
Called(op, key, failed) ==
    [op |-> op,
     key |-> IF failed = "none" THEN key ELSE EmptyBytes,
     failed |-> failed]

\* the first check of add_proposal that fails for these arguments in the
\* current state ("none": the call commits)
add_proposal_failed(sender, proposal, proposal_id, mbr_payment) ==
    LET pre_mbr == MinBalance(proposals, votes, has_voted, update_proposals,
                              update_votes, update_has_voted, assets)
        proposal_key == EncodeKey(sender, proposal_id)
        written == BoxPut(proposals, proposal_key, proposal)
        current_mbr == MinBalance(written, votes, has_voted, update_proposals,
                                  update_votes, update_has_voted, assets)
    IN IF ~PreMint(minted_asa) THEN "phase"
       ELSE IF mbr_payment.receiver /= AppAddr THEN "receiver"
       ELSE IF KeyTaken(proposals, proposal_key) THEN "duplicate"
       ELSE IF ~Funded(mbr_payment.amount, current_mbr, pre_mbr) THEN "funding"
       ELSE "none"

\* `proposals` as the call leaves it, `failed` being its failed check
add_proposal_writes(sender, proposal, proposal_id, failed) ==
    Commit(failed = "none",
           BoxPut(proposals, EncodeKey(sender, proposal_id), proposal),
           proposals)

add_proposal(sender, proposal, proposal_id, mbr_payment) ==
    LET failed == add_proposal_failed(sender, proposal, proposal_id, mbr_payment)
    IN /\ proposals' = add_proposal_writes(sender, proposal, proposal_id, failed)
       /\ last' = Called("add_proposal", EncodeKey(sender, proposal_id), failed)
       /\ UNCHANGED <<globals, votes, has_voted, update_proposals, update_votes,
                      update_has_voted, assets, history>>

\* the first check of vote that fails for this caller in the current state
vote_failed(sender) ==
    IF ~PreMint(minted_asa) THEN "phase"
    ELSE IF BoxExists(has_voted, sender) THEN "voted"
    ELSE "none"

vote(sender, proposer, proposal_id) ==
    LET proposal_key == EncodeKey(proposer, proposal_id)
        failed == vote_failed(sender)
        ok == failed = "none"
        cast == Ballot(votes, has_voted, winning_proposal_votes, winning_proposal,
                       sender, proposal_key)
    IN /\ votes' = Commit(ok, cast.tallies, votes)
       /\ winning_proposal_votes' = Commit(ok, cast.best, winning_proposal_votes)
       /\ winning_proposal' = Commit(ok, cast.leader, winning_proposal)
       /\ has_voted' = Commit(ok, cast.voted, has_voted)
       /\ ballots_cast' = IF ok
                          THEN [ballots_cast EXCEPT ![sender] = @ + 1]
                          ELSE ballots_cast
       /\ first_reached' = IF ok /\ cast.tallies[proposal_key] > MaxTally(votes)
                           THEN proposal_key
                           ELSE first_reached
       /\ last' = Called("vote", proposal_key, failed)
       /\ UNCHANGED <<winning_update_votes, winning_update, minted_asa, proposals,
                      update_proposals, update_votes, update_has_voted, assets>>

\* faulty variant: the contract is set as reserve too
MintConfigOwnReserve(proposal) ==
    [name |-> proposal.name,
     unit_name |-> proposal.unit_name,
     reserve |-> AppAddr,
     manager |-> AppAddr,
     total |-> 1]

\* the asset configuration mint's inner transaction submits
MintConfig(proposal) ==
    [name |-> proposal.name,
     unit_name |-> proposal.unit_name,
     reserve |-> proposal.reserve,
     manager |-> AppAddr,
     total |-> 1]

\* faulty variant: no asset id is recorded
CreatedAssetIdZero(a) == 0

\* InnerTxn.created_asset_id(): the ledger numbers what it creates from 1
CreatedAssetId(a) == Len(a) + 1

\* faulty variant: mint also refuses when any tallied key is not registered
mint_failed_on_phantom ==
    IF ~PreMint(minted_asa) THEN "phase"
    ELSE IF \E k \in (DOMAIN votes) \cup {winning_proposal} : ~BoxExists(proposals, k)
         THEN "missing"
    ELSE "none"

\* the first step of mint that fails in the current state: the gate, or the
\* read of the `proposals` box named by the bytes of winning_proposal
mint_failed ==
    IF ~PreMint(minted_asa) THEN "phase"
    ELSE IF ~BoxExists(proposals, winning_proposal) THEN "missing"
    ELSE "none"

mint ==
    LET proposal_key == winning_proposal
        failed == mint_failed
        ok == failed = "none"
        id == CreatedAssetId(assets)
    IN /\ assets' = IF ok
                    THEN Append(assets, [id |-> id,
                                         config |-> MintConfig(proposals[proposal_key])])
                    ELSE assets
       /\ minted_asa' = Commit(ok, id, minted_asa)
       /\ last' = Called("mint", proposal_key, failed)
       /\ UNCHANGED <<winning_proposal_votes, winning_proposal, winning_update_votes,
                      winning_update, boxes, history>>

\* the asset list after reconfiguring asset `asa` with a new reserve
Reconfigure(a, asa, reserve) ==
    [i \in DOMAIN a |->
        IF a[i].id = asa
        THEN [a[i] EXCEPT !.config.reserve = reserve, !.config.manager = AppAddr]
        ELSE a[i]]

\* the first step of update that fails in the current state: the gate, the
\* read of the `proposals` box named by the bytes of winning_update, or the
\* inner transaction, whose reserve field is given the NFTProposal bytes read
update_failed ==
    IF ~PostMint(minted_asa) THEN "phase"
    ELSE IF ~BoxExists(proposals, winning_update) THEN "missing"
    ELSE IF ~ValidAddressLen(ProposalLen(proposals[winning_update])) THEN "itxn"
    ELSE "none"

update ==
    LET update_proposal_key == winning_update
        \* the NFTProposal bytes of `proposals`, taken as they are for an address
        reserve == proposals[update_proposal_key]
        failed == update_failed
        ok == failed = "none"
    IN /\ assets' = IF ok THEN Reconfigure(assets, minted_asa, reserve) ELSE assets
       /\ last' = Called("update", update_proposal_key, failed)
       /\ UNCHANGED <<globals, boxes, history>>

\* the first check of add_update that fails for these arguments in the
\* current state ("none": the call commits)
add_update_failed(sender, reserve, proposal_id, mbr_payment) ==
    LET pre_mbr == MinBalance(proposals, votes, has_voted, update_proposals,
                              update_votes, update_has_voted, assets)
        proposal_key == EncodeKey(sender, proposal_id)
        written == BoxPut(update_proposals, proposal_key, reserve)
        current_mbr == MinBalance(proposals, votes, has_voted, written,
                                  update_votes, update_has_voted, assets)
    IN IF ~PostMint(minted_asa) THEN "phase"
       ELSE IF mbr_payment.receiver /= AppAddr THEN "receiver"
       ELSE IF KeyTaken(update_proposals, proposal_key) THEN "duplicate"
       ELSE IF ~Funded(mbr_payment.amount, current_mbr, pre_mbr) THEN "funding"
       ELSE "none"

\* `update_proposals` as the call leaves it, `failed` being its failed check
add_update_writes(sender, reserve, proposal_id, failed) ==
    Commit(failed = "none",
           BoxPut(update_proposals, EncodeKey(sender, proposal_id), reserve),
           update_proposals)

add_update(sender, reserve, proposal_id, mbr_payment) ==
    LET failed == add_update_failed(sender, reserve, proposal_id, mbr_payment)
    IN /\ update_proposals' = add_update_writes(sender, reserve, proposal_id, failed)
       /\ last' = Called("add_update", EncodeKey(sender, proposal_id), failed)
       /\ UNCHANGED <<globals, proposals, votes, has_voted, update_votes,
                      update_has_voted, assets, history>>

\* faulty variant: one flag is shared by the two ballots
vote_on_update_failed_shared_flag(sender) ==
    IF ~PreMint(minted_asa) THEN "phase"
    ELSE IF BoxExists(has_voted, sender) THEN "voted"
    ELSE "none"

\* the first check of vote_on_update that fails for this caller in the
\* current state
vote_on_update_failed(sender) ==
    IF ~PreMint(minted_asa) THEN "phase"
    ELSE IF BoxExists(update_has_voted, sender) THEN "voted"
    ELSE "none"

vote_on_update(sender, proposer, proposal_id) ==
    LET proposal_key == EncodeKey(proposer, proposal_id)
        failed == vote_on_update_failed(sender)
        ok == failed = "none"
        cast == Ballot(update_votes, update_has_voted, winning_update_votes,
                       winning_update, sender, proposal_key)
    IN /\ update_votes' = Commit(ok, cast.tallies, update_votes)
       /\ winning_update_votes' = Commit(ok, cast.best, winning_update_votes)
       /\ winning_update' = Commit(ok, cast.leader, winning_update)
       /\ update_has_voted' = Commit(ok, cast.voted, update_has_voted)
       /\ last' = Called("vote_on_update", proposal_key, failed)
       /\ UNCHANGED <<winning_proposal_votes, winning_proposal, minted_asa, proposals,
                      votes, has_voted, update_proposals, assets, history>>

Next ==
    \/ \E s \in Proposers, m \in Metadata, i \in ProposalIds, pay \in Payments :
          add_proposal(s, m, i, pay)
    \/ \E s \in Accounts, p \in Proposers, i \in ProposalIds : vote(s, p, i)
    \/ mint
    \/ update
    \/ \E s \in Proposers, r \in Reserves, i \in ProposalIds, pay \in Payments :
          add_update(s, r, i, pay)
    \/ \E s \in UpdateVoters, p \in Proposers, i \in ProposalIds :
          vote_on_update(s, p, i)

Spec == Init /\ [][Next]_vars

\* ------------------------------------------------------------ properties
Committed(op) == last.op = op /\ last.failed = "none"
Aborted(op) == last.op = op /\ last.failed /= "none"

\* C1 (one vote per account): no account has more than one committed `vote`
\* call, so once a `vote` by A committed every later `vote` by A aborted,
\* whatever key it targeted.
C1_OneVotePerAccount == \A a \in Accounts : ballots_cast[a] <= 1

\* C1 witness: an account that has voted called `vote` again and was refused.
C1_Witness ==
    /\ last.op = "vote"
    /\ last.failed = "voted"
    /\ \E a \in Accounts : ballots_cast[a] = 1

\* C2 (winner monotonicity): winning_proposal_votes never decreases; it changes
\* only in a committed `vote` whose new tally for the targeted key is strictly
\* greater than the prior winning_proposal_votes, and then winning_proposal is
\* the targeted key; a `vote` whose new tally is less than or equal to the prior
\* winning_proposal_votes leaves winning_proposal_votes and winning_proposal
\* unchanged.
C2_WinnerMonotonic ==
    [][ /\ winning_proposal_votes' >= winning_proposal_votes
        /\ (winning_proposal_votes' /= winning_proposal_votes
              => /\ last'.op = "vote"
                 /\ last'.failed = "none"
                 /\ votes'[last'.key] > winning_proposal_votes
                 /\ winning_proposal_votes' = votes'[last'.key]
                 /\ winning_proposal' = last'.key)
        /\ ((/\ last'.op = "vote"
             /\ last'.failed = "none"
             /\ votes'[last'.key] <= winning_proposal_votes)
              => /\ winning_proposal_votes' = winning_proposal_votes
                 /\ winning_proposal' = winning_proposal)
        /\ (winning_proposal' /= winning_proposal
              => winning_proposal_votes' /= winning_proposal_votes)
      ]_vars

\* C2 witness: a committed `vote` brought its key level with the leader and
\* the leader stayed.
C2_Witness ==
    /\ Committed("vote")
    /\ votes[last.key] = winning_proposal_votes
    /\ winning_proposal /= last.key

\* C3 (mint exactly once): at most one `mint` commits; a committed `mint`
\* leaves minted_asa nonzero; once nonzero minted_asa never changes and every
\* later `mint` aborts.
C3_MintOnce ==
    [][ /\ Len(assets') <= 1
        /\ ((last'.op = "mint" /\ last'.failed = "none")
              => minted_asa = 0 /\ minted_asa' /= 0)
        /\ (minted_asa /= 0
              => /\ minted_asa' = minted_asa
                 /\ (last'.op = "mint" => last'.failed /= "none"))
      ]_vars

\* C3 witness: a second `mint` was refused after the asset was minted.
C3_Witness ==
    /\ Aborted("mint")
    /\ minted_asa /= 0
    /\ Len(assets) = 1

\* C4 (phase gating): in every reachable state with minted_asa /= 0 every
\* add_proposal call and every vote call aborts; in every reachable state with
\* minted_asa = 0 every add_update call and every update call aborts.
C4_PhaseGating ==
    /\ minted_asa /= 0
        => /\ \A s \in Proposers, m \in Metadata, i \in ProposalIds, pay \in Payments :
                add_proposal_failed(s, m, i, pay) /= "none"
           /\ \A s \in Accounts : vote_failed(s) /= "none"
    /\ minted_asa = 0
        => /\ \A s \in Proposers, r \in Reserves, i \in ProposalIds, pay \in Payments :
                add_update_failed(s, r, i, pay) /= "none"
           /\ update_failed /= "none"

\* C4 witness: a `vote` by an account that never voted was refused post-mint.
C4_Witness ==
    /\ Aborted("vote")
    /\ minted_asa /= 0
    /\ \E a \in Accounts : ~BoxExists(has_voted, a)

\* the marginal storage cost of writing `value` under `key` of `proposals`
\* (resp. `update_proposals`): minimum balance after minus before the write
ProposalDelta(key, value) ==
    MinBalance(BoxPut(proposals, key, value), votes, has_voted, update_proposals,
               update_votes, update_has_voted, assets)
    - MinBalance(proposals, votes, has_voted, update_proposals,
                 update_votes, update_has_voted, assets)
UpdateDelta(key, value) ==
    MinBalance(proposals, votes, has_voted, BoxPut(update_proposals, key, value),
               update_votes, update_has_voted, assets)
    - MinBalance(proposals, votes, has_voted, update_proposals,
                 update_votes, update_has_voted, assets)

\* C5 (funding exactness): in every reachable state, an add_proposal
\* (add_update) call in the right phase, paid to the contract, for a key not yet
\* registered, aborts and leaves no entry for the key when the amount is below
\* the marginal storage cost, and commits with the entry in place when the
\* amount equals it.
C5_FundingExact ==
    /\ \A s \in Proposers, m \in Metadata, i \in ProposalIds, pay \in Payments :
        (/\ minted_asa = 0
         /\ pay.receiver = AppAddr
         /\ ~BoxExists(proposals, EncodeKey(s, i)))
          => /\ (pay.amount < ProposalDelta(EncodeKey(s, i), m)
                  => /\ add_proposal_failed(s, m, i, pay) /= "none"
                     /\ ~BoxExists(add_proposal_writes(s, m, i,
                                       add_proposal_failed(s, m, i, pay)),
                                   EncodeKey(s, i)))
             /\ (pay.amount = ProposalDelta(EncodeKey(s, i), m)
                  => /\ add_proposal_failed(s, m, i, pay) = "none"
                     /\ BoxExists(add_proposal_writes(s, m, i,
                                      add_proposal_failed(s, m, i, pay)),
                                  EncodeKey(s, i)))
    /\ \A s \in Proposers, r \in Reserves, i \in ProposalIds, pay \in Payments :
        (/\ minted_asa /= 0
         /\ pay.receiver = AppAddr
         /\ ~BoxExists(update_proposals, EncodeKey(s, i)))
          => /\ (pay.amount < UpdateDelta(EncodeKey(s, i), r)
                  => /\ add_update_failed(s, r, i, pay) /= "none"
                     /\ ~BoxExists(add_update_writes(s, r, i,
                                       add_update_failed(s, r, i, pay)),
                                   EncodeKey(s, i)))
             /\ (pay.amount = UpdateDelta(EncodeKey(s, i), r)
                  => /\ add_update_failed(s, r, i, pay) = "none"
                     /\ BoxExists(add_update_writes(s, r, i,
                                      add_update_failed(s, r, i, pay)),
                                  EncodeKey(s, i)))

\* C5 witness: an add_proposal reached the funding check, after its write, and
\* was refused; no entry was left behind.
C5_Witness ==
    /\ last.op = "add_proposal"
    /\ last.failed = "funding"
    /\ proposals = << >>

\* C6 (first-to-reach tie-break): winning_proposal_votes is the highest tally
\* and winning_proposal is the key whose tally was the first to reach it; a key
\* that reaches an equal tally later does not displace it.
C6_FirstToReach ==
    /\ winning_proposal_votes = MaxTally(votes)
    /\ winning_proposal = first_reached

\* C6 witness: two keys have two votes each, the last vote having brought its
\* key to two, and the winner is the other key, which had two votes first.
C6_Witness ==
    /\ Committed("vote")
    /\ \A p \in {1, 2} : /\ BoxExists(votes, EncodeKey(p, 1))
                         /\ votes[EncodeKey(p, 1)] = 2
    /\ winning_proposal_votes = 2
    /\ winning_proposal /= last.key

\* C7 (all-or-nothing abort): an aborted call leaves the five globals and the
\* six mappings as they were, also when its failing check follows a write.
C7_AbortChangesNothing ==
    [][ last'.failed /= "none" => UNCHANGED <<globals, boxes, assets>> ]_vars

\* C7 witness: an add_update was refused at its funding check, which follows
\* its write, and `update_proposals` holds nothing.
C7_Witness ==
    /\ last.op = "add_update"
    /\ last.failed = "funding"
    /\ update_proposals = << >>

\* C8 (entries unique per key and immutable): add_proposal (add_update) aborts
\* when its key is registered, that is, the key of a committed one was not
\* registered before it; an entry of `proposals` or `update_proposals`
\* never disappears or changes; a new entry is created by a committed
\* add_proposal (add_update) of the caller named in its key.
C8_EntriesImmutable ==
    [][ /\ (last'.op = "add_proposal" /\ last'.failed = "none")
              => ~BoxExists(proposals, last'.key)
        /\ (last'.op = "add_update" /\ last'.failed = "none")
              => ~BoxExists(update_proposals, last'.key)
        /\ \A k \in DOMAIN proposals :
            BoxExists(proposals', k) /\ proposals'[k] = proposals[k]
        /\ \A k \in DOMAIN update_proposals :
            BoxExists(update_proposals', k) /\ update_proposals'[k] = update_proposals[k]
        /\ \A k \in (DOMAIN proposals') \ (DOMAIN proposals) :
            \E s \in Proposers, m \in Metadata, i \in ProposalIds, pay \in Payments :
                /\ k = EncodeKey(s, i)
                /\ k[1] = s
                /\ last'.failed = "none"
                /\ add_proposal(s, m, i, pay)
        /\ \A k \in (DOMAIN update_proposals') \ (DOMAIN update_proposals) :
            \E s \in Proposers, r \in Reserves, i \in ProposalIds, pay \in Payments :
                /\ k = EncodeKey(s, i)
                /\ k[1] = s
                /\ last'.failed = "none"
                /\ add_update(s, r, i, pay)
      ]_vars

\* C8 witness: an add_proposal for a registered key was refused.
C8_Witness ==
    /\ last.op = "add_proposal"
    /\ last.failed = "duplicate"
    /\ proposals /= << >>

\* C9 (missing reference on mint): in every reachable state where the key in
\* winning_proposal has no entry in `proposals` (no vote cast, or a phantom
\* winner) minted_asa is 0 and a `mint` call aborts, which leaves it 0; a
\* pre-mint `mint` whose winner is registered commits, whatever phantom tallies
\* exist beside it.
C9_MintNeedsWinnerEntry ==
    [][ /\ ~BoxExists(proposals, winning_proposal)
              => /\ mint_failed /= "none"
                 /\ minted_asa = 0
                 /\ (last'.op = "mint" => last'.failed /= "none" /\ minted_asa' = 0)
        /\ (minted_asa = 0 /\ BoxExists(proposals, winning_proposal))
              => /\ mint_failed = "none"
                 /\ (last'.op = "mint" => last'.failed = "none" /\ minted_asa' /= 0)
      ]_vars

\* C9 witness: `mint` committed although a key that was never registered
\* holds a tally, the winner being registered.
C9_Witness ==
    /\ Committed("mint")
    /\ \E k \in DOMAIN votes : ~BoxExists(proposals, k)

\* C9, the refusing case: `mint` was refused because the winner is a phantom.
C9_PhantomWinnerRefused ==
    /\ last.op = "mint"
    /\ last.failed = "missing"
    /\ winning_proposal /= EmptyBytes

\* C10 (mint consumes the winner): a committed `mint` creates exactly one
\* asset, of total 1, with the name, unit name and reserve of the `proposals`
\* entry under winning_proposal and the contract as manager, and records its id
\* in minted_asa; no other call creates or changes an asset.
C10_MintConsumesWinner ==
    [][ /\ ((last'.op = "mint" /\ last'.failed = "none")
              => /\ Len(assets') = Len(assets) + 1
                 /\ SubSeq(assets', 1, Len(assets)) = assets
                 /\ LET created == assets'[Len(assets')]
                        winner == proposals[winning_proposal]
                    IN /\ created.config.total = 1
                       /\ created.config.name = winner.name
                       /\ created.config.unit_name = winner.unit_name
                       /\ created.config.reserve = winner.reserve
                       /\ created.config.manager = AppAddr
                       /\ minted_asa' = created.id)
        /\ (assets' /= assets => last'.op = "mint" /\ last'.failed = "none")
      ]_vars

\* C10 witness: the asset minted from the winner, here the "Silver" proposal
\* of account 2 while account 1 registered "Gold".
C10_Witness ==
    /\ Committed("mint")
    /\ Len(assets) = 1
    /\ assets[1].config.name = "Silver"
    /\ assets[1].config.reserve = 2
    /\ last.key = EncodeKey(2, 1)
    /\ BoxExists(proposals, EncodeKey(1, 1))
    /\ proposals[EncodeKey(1, 1)].name = "Gold"

\* C11 (update consumes the winning update proposal): `update` takes the
\* reserve from update_proposals under winning_update and from no other
\* mapping: it aborts on the phase gate before mint, aborts on the lookup
\* exactly when update_proposals has no entry under winning_update, commits
\* otherwise, and a committed `update` left asset minted_asa with the reserve
\* stored in that entry.
C11_UpdateConsumesWinningUpdate ==
    /\ update_failed =
          (IF ~PostMint(minted_asa) THEN "phase"
           ELSE IF ~BoxExists(update_proposals, winning_update) THEN "missing"
           ELSE "none")
    /\ Committed("update")
          => /\ BoxExists(update_proposals, winning_update)
             /\ \A i \in DOMAIN assets :
                   assets[i].id = minted_asa
                      => assets[i].config.reserve = update_proposals[winning_update]

\* C12 (update voting operates in the post-mint phase): once the asset is
\* minted, a vote_on_update call by an account that has no update_has_voted
\* entry succeeds, so callers can vote again between two `update` calls.
C12_UpdateVotingPostMint ==
    PostMint(minted_asa)
       => \A s \in UpdateVoters :
             ~BoxExists(update_has_voted, s) => vote_on_update_failed(s) = "none"

\* what a vote / vote_on_update step leaves alone
VoteFrame ==
    UNCHANGED <<winning_update_votes, winning_update, update_votes,
                update_has_voted, update_proposals, proposals, minted_asa, assets>>
UpdateVoteFrame ==
    UNCHANGED <<winning_proposal_votes, winning_proposal, votes, has_voted,
                update_proposals, proposals, minted_asa, assets>>

\* C13 as stated (the two ballots are independent): `vote` reads and writes
\* only has_voted, votes, winning_proposal_votes and winning_proposal, and
\* vote_on_update only update_has_voted, update_votes, winning_update_votes
\* and winning_update; so whether a call succeeds is decided by the caller's
\* own flag of that ballot alone, and an account that voted can still vote on
\* updates once, and vice versa.
C13_BallotsIndependent ==
    /\ [][ /\ last'.op = "vote" => VoteFrame
           /\ last'.op = "vote_on_update" => UpdateVoteFrame ]_vars
    /\ [](/\ \A s \in Accounts :
                vote_failed(s) = "none" <=> ~BoxExists(has_voted, s)
          /\ \A s \in UpdateVoters :
                vote_on_update_failed(s) = "none" <=> ~BoxExists(update_has_voted, s))

\* C13 amended: apart from the phase gate on minted_asa, which both calls
\* read, `vote` reads and writes only its own four items and vote_on_update
\* only its own four; so while minted_asa = 0 whether a call succeeds is
\* decided by the caller's own flag of that ballot alone (an account that
\* voted can still vote on updates once, and vice versa), a committed call
\* writes what its own ballot's items determine, and update_has_voted is set
\* only for an account that had no entry, whose entry then stays.
C13_BallotsIndependentPreMint ==
    /\ [][ /\ last'.op = "vote" => VoteFrame
           /\ last'.op = "vote_on_update" => UpdateVoteFrame
           /\ (last'.op = "vote" /\ last'.failed = "none")
                 => \E s \in Accounts :
                       LET cast == Ballot(votes, has_voted, winning_proposal_votes,
                                          winning_proposal, s, last'.key)
                       IN /\ ~BoxExists(has_voted, s)
                          /\ <<votes', has_voted', winning_proposal_votes',
                               winning_proposal'>>
                                = <<cast.tallies, cast.voted, cast.best, cast.leader>>
           /\ (last'.op = "vote_on_update" /\ last'.failed = "none")
                 => \E s \in UpdateVoters :
                       LET cast == Ballot(update_votes, update_has_voted,
                                          winning_update_votes, winning_update,
                                          s, last'.key)
                       IN /\ ~BoxExists(update_has_voted, s)
                          /\ <<update_votes', update_has_voted',
                               winning_update_votes', winning_update'>>
                                = <<cast.tallies, cast.voted, cast.best, cast.leader>>
           /\ \A s \in DOMAIN update_has_voted :
                 BoxExists(update_has_voted', s) ]_vars
    /\ [](PreMint(minted_asa)
            => /\ \A s \in Accounts :
                     vote_failed(s) = "none" <=> ~BoxExists(has_voted, s)
               /\ \A s \in UpdateVoters :
                     vote_on_update_failed(s) = "none"
                        <=> ~BoxExists(update_has_voted, s))

\* C13 witness: account 1, which had voted, has just voted on updates, and
\* account 2, which has voted on updates only, can still vote.
C13_Witness ==
    /\ Committed("vote_on_update")
    /\ BoxExists(has_voted, 1)
    /\ BoxExists(update_has_voted, 1)
    /\ BoxExists(update_has_voted, 2)
    /\ ~BoxExists(has_voted, 2)
    /\ vote_failed(2) = "none"

\* C14 (vote_on_update is gated on the pre-mint condition): in every state
\* with minted_asa /= 0 the call aborts for every caller; in a state with
\* minted_asa = 0 it succeeds for every caller that has no update_has_voted
\* entry; a committed call raises the tally of its key in update_votes by one
\* (from 0 when the key had none), leaves the other tallies alone, and moves
\* winning_update_votes / winning_update to the new tally and its key exactly
\* when the new tally is strictly greater than winning_update_votes.
C14_UpdateVotingPreMint ==
    /\ [](PostMint(minted_asa)
            => \A s \in UpdateVoters : vote_on_update_failed(s) /= "none")
    /\ [](PreMint(minted_asa)
            => \A s \in UpdateVoters :
                  ~BoxExists(update_has_voted, s) => vote_on_update_failed(s) = "none")
    /\ [][ /\ (last'.op = "vote_on_update" /\ PostMint(minted_asa))
                 => last'.failed /= "none"
           /\ (last'.op = "vote_on_update" /\ last'.failed = "none")
                 => LET key == last'.key
                        before == IF BoxExists(update_votes, key)
                                  THEN update_votes[key] ELSE 0
                    IN /\ PreMint(minted_asa)
                       /\ DOMAIN update_votes' = DOMAIN update_votes \cup {key}
                       /\ update_votes'[key] = before + 1
                       /\ \A k \in DOMAIN update_votes \ {key} :
                             update_votes'[k] = update_votes[k]
                       /\ IF before + 1 > winning_update_votes
                          THEN /\ winning_update_votes' = before + 1
                               /\ winning_update' = key
                          ELSE UNCHANGED <<winning_update_votes, winning_update>>
         ]_vars

\* C14 witness: the second update ballot went to another key and tied with
\* the winner at one vote each, which left the winner in place.
C14_Witness ==
    /\ Committed("vote_on_update")
    /\ minted_asa = 0
    /\ last.key = EncodeKey(2, 1)
    /\ BoxExists(update_votes, EncodeKey(1, 1))
    /\ update_votes[EncodeKey(1, 1)] = 1
    /\ update_votes[EncodeKey(2, 1)] = 1
    /\ winning_update = EncodeKey(1, 1)
    /\ winning_update_votes = 1

\* C15 (phantom tallies): before mint a `vote` call by an account that has not
\* voted passes its checks, which do not look at `proposals`; a committed
\* `vote` leaves its key with tally 1 when the key had no tally and with the
\* previous tally plus one otherwise, whether or not `proposals` has an entry
\* under the key; and no `vote` call creates or changes a `proposals` entry.
C15_PhantomTallies ==
    /\ [](PreMint(minted_asa)
            => \A s \in Accounts : ~BoxExists(has_voted, s) => vote_failed(s) = "none")
    /\ [][ /\ last'.op = "vote" => proposals' = proposals
           /\ (last'.op = "vote" /\ last'.failed = "none")
                 => LET key == last'.key
                    IN /\ BoxExists(votes', key)
                       /\ votes'[key] = IF BoxExists(votes, key)
                                        THEN votes[key] + 1
                                        ELSE 1
         ]_vars

\* C15 witness: a ballot for the key (2, 1), which nobody registered while
\* (1, 1) is registered, committed, created its tally and made the phantom
\* key the winner.
C15_Witness ==
    /\ Committed("vote")
    /\ last.key = EncodeKey(2, 1)
    /\ ~BoxExists(proposals, EncodeKey(2, 1))
    /\ BoxExists(proposals, EncodeKey(1, 1))
    /\ votes[EncodeKey(2, 1)] = 1
    /\ winning_proposal = EncodeKey(2, 1)

\* C16 (`update` is repeatable and state-preserving): an `update` call made
\* after mint while the winning update is registered, the call that C11
\* describes as successful, commits, changes none of the five scalars and
\* none of the six mappings, and leaves the contract in a state where a
\* further `update` succeeds again.
C16_UpdateRepeatable ==
    [][ (/\ last'.op = "update"
         /\ PostMint(minted_asa)
         /\ BoxExists(update_proposals, winning_update))
           => /\ last'.failed = "none"
              /\ UNCHANGED <<globals, boxes>>
              /\ update_failed' = "none" ]_vars

\* the ballot items of the current state, and those after one more `vote`
\* call by `sender` for `key` made before mint: the call aborts, changing
\* nothing, when the sender is already marked
BallotNow ==
    [tallies |-> votes, voted |-> has_voted,
     best |-> winning_proposal_votes, leader |-> winning_proposal]
ThenVote(st, sender, key) ==
    IF BoxExists(st.voted, sender) THEN st
    ELSE Ballot(st.tallies, st.voted, st.best, st.leader, sender, key)
BallotKeys == {EncodeKey(p, i) : p \in Proposers, i \in ProposalIds}

\* the two serial orders of the votes a for ka and b for kb differ in the
\* winning key
OrdersDiffer(a, ka, b, kb) ==
    ThenVote(ThenVote(BallotNow, a, ka), b, kb).leader
       /= ThenVote(ThenVote(BallotNow, b, kb), a, ka).leader

\* C17 (order dependence of racing votes): in every state before mint, for
\* every two `vote` calls by distinct accounts that have not voted, the two
\* serial orders end with the same tallies, the same marked voters and the
\* same winning tally; the winning key differs between the orders exactly
\* when the calls target different keys whose resulting tallies are equal
\* and are the new, raised, winning tally.
C17_OrderOfVotes ==
    PreMint(minted_asa)
       => \A a, b \in Accounts, ka, kb \in BallotKeys :
             (a /= b /\ vote_failed(a) = "none" /\ vote_failed(b) = "none")
                => LET ab == ThenVote(ThenVote(BallotNow, a, ka), b, kb)
                       ba == ThenVote(ThenVote(BallotNow, b, kb), a, ka)
                   IN /\ ab.tallies = ba.tallies
                      /\ ab.voted = ba.voted
                      /\ ab.best = ba.best
                      /\ OrdersDiffer(a, ka, b, kb)
                            <=> /\ ka /= kb
                                /\ ab.tallies[ka] = ab.tallies[kb]
                                /\ ab.tallies[ka] = ab.best
                                /\ ab.best > winning_proposal_votes

\* C17 witness: with one ballot on each of two keys, accounts 3 and 4 have
\* not voted; their votes for the two keys end with a different winner in the
\* two orders, their votes for one key do not.
C17_Witness ==
    /\ PreMint(minted_asa)
    /\ Committed("vote")
    /\ winning_proposal_votes = 1
    /\ vote_failed(3) = "none"
    /\ vote_failed(4) = "none"
    /\ OrdersDiffer(3, EncodeKey(1, 1), 4, EncodeKey(2, 1))
    /\ ~OrdersDiffer(3, EncodeKey(1, 1), 4, EncodeKey(1, 1))

\* C18 (winner pointer consistency): in every reachable state
\* winning_proposal_votes is the highest tally of `votes` (0 when `votes` has
\* no entry), and when it is greater than 0 the key in winning_proposal has a
\* `votes` entry with exactly that tally; the same holds for
\* winning_update_votes and winning_update over update_votes.
C18_WinnerConsistent ==
    /\ winning_proposal_votes = MaxTally(votes)
    /\ winning_proposal_votes > 0
          => /\ BoxExists(votes, winning_proposal)
             /\ votes[winning_proposal] = winning_proposal_votes
    /\ winning_update_votes = MaxTally(update_votes)
    /\ winning_update_votes > 0
          => /\ BoxExists(update_votes, winning_update)
             /\ update_votes[winning_update] = winning_update_votes

\* C18 witness: in both ballots the winner is ahead of another key that has
\* a tally too, and the latest ballot went to the key that is behind.
C18_Witness ==
    /\ Committed("vote")
    /\ last.key = EncodeKey(1, 1)
    /\ winning_proposal = EncodeKey(2, 1)
    /\ winning_proposal_votes = 3
    /\ votes[EncodeKey(1, 1)] = 1
    /\ winning_update = EncodeKey(1, 1)
    /\ winning_update_votes = 1
    /\ BoxExists(update_votes, EncodeKey(2, 1))

\* the sum of the tallies of the keys `keys` of a ballot box mapping
RECURSIVE SumTallies(_, _)
SumTallies(box, keys) ==
    IF keys = {} THEN 0
    ELSE LET k == CHOOSE x \in keys : TRUE
         IN box[k] + SumTallies(box, keys \ {k})

\* C19 (vote conservation): in every reachable state the tallies of `votes`
\* add up to the number of accounts that have a has_voted entry and every
\* `votes` entry is at least 1; the same holds for update_votes with
\* update_has_voted.
C19_VoteConservation ==
    /\ SumTallies(votes, DOMAIN votes) = Cardinality(DOMAIN has_voted)
    /\ \A k \in DOMAIN votes : votes[k] >= 1
    /\ SumTallies(update_votes, DOMAIN update_votes)
          = Cardinality(DOMAIN update_has_voted)
    /\ \A k \in DOMAIN update_votes : update_votes[k] >= 1

\* C19 witness: three accounts voted on two keys and two voted on updates
\* on two keys.
C19_Witness ==
    /\ Cardinality(DOMAIN has_voted) = 3
    /\ Cardinality(DOMAIN votes) = 2
    /\ Cardinality(DOMAIN update_has_voted) = 2
    /\ Cardinality(DOMAIN update_votes) = 2

\* C20 (update votes are always phantom and frozen at mint): while
\* minted_asa = 0 update_proposals is empty, so it is empty when a
\* vote_on_update call commits; minted_asa never returns to 0; from mint on
\* update_votes, update_has_voted, winning_update_votes and winning_update
\* never change; so once update_proposals has an entry the key `update` uses,
\* winning_update, is fixed.
C20_UpdateVotesFrozen ==
    /\ [](minted_asa = 0 => update_proposals = << >>)
    /\ [][ /\ (last'.op = "vote_on_update" /\ last'.failed = "none")
                 => update_proposals = << >> /\ update_proposals' = << >>
           /\ minted_asa /= 0
                 => /\ minted_asa' /= 0
                    /\ UNCHANGED <<update_votes, update_has_voted,
                                   winning_update_votes, winning_update>>
           /\ (update_proposals /= << >> \/ update_proposals' /= << >>)
                 => winning_update' = winning_update
         ]_vars

\* C20 witness: after mint an update was registered under the very key that
\* won the update ballot before mint, when nothing was registered.
C20_Witness ==
    /\ Committed("add_update")
    /\ minted_asa /= 0
    /\ last.key = winning_update
    /\ BoxExists(update_proposals, winning_update)
    /\ winning_update_votes = 2
    /\ Cardinality(DOMAIN update_has_voted) = 2

====
